---- MODULE Spec2Model ----
(***************************************************************************)
(* AuraVerse: the ingestion pipeline (main.py, JsonHandler.py), the        *)
(* storage provisioner (Creating_Storage.py) and the two-tier retrieval    *)
(* engine (Search_UI.py).                                                  *)
(*                                                                         *)
(* Strings are sequences of one-character strings, so that substring       *)
(* matching, prefixes, suffixes and sanitisation are computed, not assumed.*)
(* A MIME type "a/b" is the pair <<"a", "b">>.  File contents are blobs,   *)
(* named values whose decoded text and JSON parse are given by tables.     *)
(***************************************************************************)
EXTENDS Integers, Sequences, FiniteSets, TLC

\* ------------------------------------------------------------------ bounds
MaxClock == 2          \* the millisecond clock runs over 1..MaxClock
MaxFiles == 2          \* paths handed to select_files, over all batches
MaxFaults == 1         \* disturbances: source files changed, I/O faults
SearchLimit == 2       \* stands for LIMIT 500 of db_search, scaled to the model

\* --------------------------------------------------------- string helpers
Last(s) == s[Len(s)]

Front(s) == SubSeq(s, 1, Len(s) - 1)

Take(s, n) == SubSeq(s, 1, IF n < Len(s) THEN n ELSE Len(s))

StartsWith(s, p) == Len(p) <= Len(s) /\ SubSeq(s, 1, Len(p)) = p

EndsWith(s, p) == Len(p) <= Len(s) /\ SubSeq(s, Len(s) - Len(p) + 1, Len(s)) = p

\* Python's `p in s`
Contains(s, p) ==
    \E i \in 0..(Len(s) - Len(p)) : SubSeq(s, i + 1, i + Len(p)) = p

LowerChar(c) ==
    CASE c = "A" -> "a"
      [] c = "E" -> "e"
      [] c = "J" -> "j"
      [] c = "N" -> "n"
      [] c = "O" -> "o"
      [] c = "S" -> "s"
      [] c = "T" -> "t"
      [] c = "X" -> "x"
      [] OTHER -> c

\* str.lower()
Lower(s) == [i \in 1..Len(s) |-> LowerChar(s[i])]

RECURSIVE LStrip(_)
LStrip(s) == IF s # <<>> /\ Head(s) = " " THEN LStrip(Tail(s)) ELSE s

RECURSIVE RStrip(_)
RStrip(s) == IF s # <<>> /\ Last(s) = " " THEN RStrip(Front(s)) ELSE s

\* str.strip()
Strip(s) == RStrip(LStrip(s))

\* index of the last occurrence of c in s, 0 if none
RECURSIVE LastIndexOf(_, _)
LastIndexOf(s, c) ==
    IF s = <<>> THEN 0
    ELSE IF Last(s) = c THEN Len(s) ELSE LastIndexOf(Front(s), c)

\* index of the first occurrence of c in s, 0 if none
FirstIndexOf(s, c) ==
    IF \E i \in 1..Len(s) : s[i] = c
    THEN CHOOSE i \in 1..Len(s) : s[i] = c /\ \A j \in 1..(i - 1) : s[j] # c
    ELSE 0

\* os.path.basename / Path.name
Basename(path) == SubSeq(path, LastIndexOf(path, "/") + 1, Len(path))

\* os.path.dirname
Dirname(path) ==
    LET i == LastIndexOf(path, "/") IN IF i <= 1 THEN SubSeq(path, 1, i) ELSE SubSeq(path, 1, i - 1)

\* Path.suffix: the last dot of the name and what follows, unless the name
\* starts with that dot or ends with it
Suffix(path) ==
    LET name == Basename(path)
        i == LastIndexOf(name, ".")
    IN IF i <= 1 \/ i = Len(name) THEN <<>> ELSE SubSeq(name, i, Len(name))

Digit(d) ==
    CASE d = 0 -> "0" [] d = 1 -> "1" [] d = 2 -> "2" [] d = 3 -> "3" [] d = 4 -> "4"
      [] d = 5 -> "5" [] d = 6 -> "6" [] d = 7 -> "7" [] d = 8 -> "8" [] d = 9 -> "9"

\* f"{n}" for a natural number
RECURSIVE Decimal(_)
Decimal(n) == IF n < 10 THEN <<Digit(n)>> ELSE Decimal(n \div 10) \o <<Digit(n % 10)>>

DigitChars == {"0", "1", "2", "3", "4", "5", "6", "7", "8", "9"}

LetterChars ==
    {"a", "b", "d", "e", "g", "h", "i", "j", "l", "n", "o", "p", "s", "t", "x", "y",
     "A", "E", "J", "T", "X"}

\* the regular expression class \w
IsWordChar(c) == c \in LetterChars \cup DigitChars \cup {"_"}

RECURSIVE Filter(_, _)
Filter(s, keep) ==
    IF s = <<>> THEN <<>>
    ELSE (IF Head(s) \in keep THEN <<Head(s)>> ELSE <<>>) \o Filter(Tail(s), keep)

RECURSIVE Join(_, _)
\* sep.join(parts)
Join(parts, sep) ==
    IF parts = <<>> THEN <<>>
    ELSE IF Len(parts) = 1 THEN parts[1]
    ELSE parts[1] \o sep \o Join(Tail(parts), sep)

\* ------------------------------------------------------- string literals
S_json == <<"j", "s", "o", "n">>
S_text == <<"t", "e", "x", "t">>
S_txt == <<"t", "x", "t">>
S_png == <<"p", "n", "g">>
S_log == <<"l", "o", "g">>
S_type == <<"t", "y", "p", "e", ":">>

\* ------------------------------------------------------------ categories
\* the keys of CATEGORIES, which are also the names of the subdirectories
CategoryNames == {"image", "video", "json", "text", "audio", "pdf", "other"}

CatChars(c) ==
    CASE c = "image" -> <<"i", "m", "a", "g", "e">>
      [] c = "video" -> <<"v", "i", "d", "e", "o">>
      [] c = "json" -> S_json
      [] c = "text" -> S_text
      [] c = "audio" -> <<"a", "u", "d", "i", "o">>
      [] c = "pdf" -> <<"p", "d", "f">>
      [] c = "other" -> <<"o", "t", "h", "e", "r">>

\* STORAGE_ROOT, the per-user folder
StorageRoot == <<"/", "s">>

\* CATEGORIES[c] = STORAGE_ROOT / c
CategoryDir(c) == StorageRoot \o <<"/">> \o CatChars(c)

\* ------------------------------------------------------- classification
OctetStream == <<"application", "octet-stream">>

\* mimetypes.guess_type(path), by the extension; None when it knows none
GuessType(path) ==
    LET ext == Lower(Suffix(path))
    IN CASE ext = <<".">> \o S_txt -> <<"text", "plain">>
         [] ext = <<".">> \o S_json -> <<"application", "json">>
         [] ext = <<".">> \o S_png -> <<"image", "png">>
         [] OTHER -> <<>>

guess_mime(path) == IF GuessType(path) # <<>> THEN GuessType(path) ELSE OctetStream

TextExtensions ==
    {<<".">> \o S_txt, <<".", "m", "d">>, <<".", "c", "s", "v">>, <<".">> \o S_log,
     <<".", "p", "y">>, <<".", "j", "a", "v", "a">>, <<".", "c", "p", "p">>, <<".", "j", "s">>,
     <<".", "c">>, <<".", "c", "s">>}

\* a slip: the extension is looked at before the MIME type
mime_to_category_ExtensionFirst(mime, path) ==
    LET ext == Lower(Suffix(path))
    IN IF ext = <<".">> \o S_json THEN "json"
       ELSE IF ext \in TextExtensions THEN "text"
       ELSE IF mime # <<>> /\ mime[1] = "image" THEN "image"
       ELSE IF mime # <<>> /\ mime[1] = "video" THEN "video"
       ELSE IF mime # <<>> /\ mime[1] = "audio" THEN "audio"
       ELSE IF mime = <<"application", "json">> THEN "json"
       ELSE IF mime # <<>> /\ mime[1] = "text" THEN "text"
       ELSE IF mime = <<"application", "pdf">> THEN "pdf"
       ELSE "other"

mime_to_category(mime, path) ==
    IF mime # <<>> /\ mime[1] = "image" THEN "image"
    ELSE IF mime # <<>> /\ mime[1] = "video" THEN "video"
    ELSE IF mime # <<>> /\ mime[1] = "audio" THEN "audio"
    ELSE IF mime = <<"application", "json">> THEN "json"
    ELSE IF mime # <<>> /\ mime[1] = "text" THEN "text"
    ELSE IF mime = <<"application", "pdf">> THEN "pdf"
    ELSE LET ext == Lower(Suffix(path))
         IN IF ext = <<".">> \o S_json THEN "json"
            ELSE IF ext \in TextExtensions THEN "text"
            ELSE "other"

\* ---------------------------------------------------------- sanitisation
SanitizeMaxLen == 200

SanitizeKeep == LetterChars \cup DigitChars \cup {"_", "-", ".", " "}

sanitize_filename(s) ==
    LET stripped == Strip(s)
        noSep == [i \in 1..Len(stripped) |->
                     IF stripped[i] \in {"/", "\\"} THEN "_" ELSE stripped[i]]
        kept == Filter(noSep, SanitizeKeep)
        noSpace == [i \in 1..Len(kept) |-> IF kept[i] = " " THEN "_" ELSE kept[i]]
    IN Take(noSpace, SanitizeMaxLen)

\* f"{timestamp}_{sanitize_filename(p.name)}" under the category's folder
DestPath(category, timestamp, path) ==
    CategoryDir(category) \o <<"/">> \o Decimal(timestamp) \o <<"_">>
        \o sanitize_filename(Basename(path))

\* ------------------------------------------------------------- contents
\* Blobs: the byte contents a file can have.
Blobs == {"hi", "yo", "ann", "bad", ""}

\* the blob decoded as text (utf-8, errors ignored)
BlobText(b) ==
    CASE b = "hi" -> <<"h", "i">>
      [] b = "yo" -> <<"y", "o">>
      [] b = "ann" -> <<"{", "\"", "n", "\"", ":", "\"", "A", "n", "\"", "}">>
      [] b = "bad" -> <<"{", "b">>
      [] b = "" -> <<>>

\* JSON values: t is the type; s the text of a scalar; items the members
\* of an object (pairs <<key, value>>) or the elements of an array.
JStr(s) == [t |-> "str", s |-> s, items |-> <<>>]

JObj(items) == [t |-> "obj", s |-> <<>>, items |-> items]

JNum(s) == [t |-> "num", s |-> s, items |-> <<>>]

\* s is str(value): "True" or "False"
JBool(s) == [t |-> "bool", s |-> s, items |-> <<>>]

JNull == [t |-> "null", s |-> <<>>, items |-> <<>>]

JArr(items) == [t |-> "arr", s |-> <<>>, items |-> items]

JInvalid == [t |-> "invalid", s |-> <<>>, items |-> <<>>]

\* json.load on the blob; JInvalid when it raises
JsonLoad(b) ==
    CASE b = "ann" -> JObj(<< <<(<<"n">>), JStr(<<"A", "n">>)>> >>)
      [] OTHER -> JInvalid

\* hashlib.sha256 over the bytes: distinct blobs have distinct digests
Sha256(b) == <<"sha256", b>>

\* ------------------------------------------------- JsonHandler.py
IsScalarForPreview(v) == v.t \in {"str", "num", "bool"}

\* str(obj) of a JSON scalar
PyStr(v) ==
    CASE v.t = "null" -> <<"N", "o", "n", "e">>
      [] OTHER -> v.s

\* json.dumps of a scalar
DumpsScalar(v) == IF v.t = "str" THEN <<"\"">> \o v.s \o <<"\"">> ELSE Lower(v.s)

RECURSIVE flatten(_)
flatten(obj) ==
    IF obj.t = "obj"
    THEN Join([i \in 1..Len(obj.items) |-> flatten(obj.items[i][2])], <<" ">>)
    ELSE IF obj.t = "arr"
    THEN Join([i \in 1..Len(obj.items) |-> flatten(obj.items[i])], <<" ">>)
    ELSE PyStr(obj)

PreviewMax == 5

\* the loop of extract_metadata: the scalar members met before the preview
\* holds PreviewMax of them
RECURSIVE PreviewItems(_, _)
PreviewItems(items, acc) ==
    IF items = <<>> THEN acc
    ELSE LET acc2 == IF IsScalarForPreview(Head(items)[2]) THEN Append(acc, Head(items))
                     ELSE acc
         IN IF Len(acc2) >= PreviewMax THEN acc2 ELSE PreviewItems(Tail(items), acc2)

\* json.dumps(preview) of a dict of scalars
DumpsPreview(items) ==
    <<"{">>
    \o Join([i \in 1..Len(items) |->
                <<"\"">> \o items[i][1] \o <<"\"", ":", " ">> \o DumpsScalar(items[i][2])],
            <<",", " ">>)
    \o <<"}">>

EmptyMeta == [json_keys |-> <<>>, json_preview |-> <<>>, json_search_text |-> <<>>]

extract_metadata(data) ==
    IF data.t # "obj" THEN EmptyMeta
    ELSE LET preview == PreviewItems(data.items, <<>>)
         IN [json_keys |-> Join([i \in 1..Len(data.items) |-> data.items[i][1]], <<",">>),
             json_preview |-> IF preview # <<>> THEN DumpsPreview(preview) ELSE <<>>,
             json_search_text |-> Lower(flatten(data))]

\* is_json(path) on a file holding blob b; an unreadable file raises inside
\* the try and gives False
is_json(readable, b) == readable /\ JsonLoad(b).t # "invalid"

\* load_json(path): the parsed value, or None (here "none") when reading or
\* parsing raises, and also when the document is the JSON null
NoValue == [t |-> "none", s |-> <<>>, items |-> <<>>]

load_json(readable, b) ==
    IF readable /\ JsonLoad(b).t \notin {"invalid", "null"} THEN JsonLoad(b) ELSE NoValue

\* the extensions extract_text_from_any_file reads as plain text
ExtractTextExtensions ==
    {<<".">> \o S_txt, <<".", "m", "d">>, <<".", "c", "s", "v">>, <<".">> \o S_log,
     <<".", "p", "y">>}

ExtractReadLimit == 100000

\* extract_text_from_any_file(path) on a readable file holding the bytes b:
\* json_search_text of the parsed document for .json, the lowercased
\* prefix for the text extensions, "" otherwise
extract_text_from_any_file(path, b) ==
    LET ext == Lower(Suffix(path))
    IN IF ext = <<".">> \o S_json
       THEN IF load_json(TRUE, b) = NoValue THEN <<>>
            ELSE extract_metadata(load_json(TRUE, b)).json_search_text
       ELSE IF ext \in ExtractTextExtensions
       THEN Lower(Take(BlobText(b), ExtractReadLimit))
       ELSE <<>>

\* ---------------------------------------------------------------- inputs
\* the values the members of a document can have
DocValues ==
    {JStr(<<"A", "n">>), JNum(<<"3", "0">>), JBool(<<"T", "r", "u", "e">>), JNull,
     JArr(<<>>), JArr(<<JStr(<<"x">>), JStr(<<"y">>)>>),
     JObj(<< <<(<<"k">>), JStr(<<"X">>)>> >>)}

\* {"name": "An", "age": 30, "tags": ["x", "y"]}
Doc_Ann ==
    JObj(<< <<(<<"n", "a", "m", "e">>), JStr(<<"A", "n">>)>>,
            <<(<<"a", "g", "e">>), JNum(<<"3", "0">>)>>,
            <<(<<"t", "a", "g", "s">>), JArr(<<JStr(<<"x">>), JStr(<<"y">>)>>)>> >>)

\* seven members, six of them scalars, the second an array
Doc_Seven ==
    JObj(<< <<(<<"a">>), JNum(<<"1">>)>>, <<(<<"b">>), JArr(<<JNum(<<"9">>)>>)>>,
            <<(<<"c">>), JNum(<<"2">>)>>, <<(<<"d">>), JStr(<<"x">>)>>,
            <<(<<"e">>), JBool(<<"T", "r", "u", "e">>)>>, <<(<<"f">>), JNum(<<"5">>)>>,
            <<(<<"g">>), JNum(<<"6">>)>> >>)

\* the parsed documents extract_metadata is given: objects of up to two
\* members, the two above, and two documents that are not objects
Docs ==
    {JObj(<<>>), Doc_Ann, Doc_Seven, JArr(<<JStr(<<"x">>)>>), JStr(<<"x">>)}
    \cup {JObj(<< <<(<<"a">>), v>> >>) : v \in DocValues}
    \cup {JObj(<< <<(<<"a">>), v>>, <<(<<"b">>), w>> >>) : v, w \in DocValues}

\* the MIME types and paths mime_to_category is given; <<>> is None
MimeInputs ==
    {<<>>, OctetStream, <<"image", "png">>, <<"video", "mp4">>, <<"audio", "mpeg">>,
     <<"application", "json">>, <<"application", "pdf">>, <<"text", "plain">>,
     <<"application", "zip">>}

P_upper == <<"/", "A", ".", "J", "S", "O", "N">>
P_png == <<"/", "a", "/", "p", ".">> \o S_png
P_cs == <<"/", "a", "/", "p", ".", "c", "s">>

P_ax == <<"/", "a", "/", "x", ".">> \o S_txt
P_bx == <<"/", "b", "/", "x", "!", ".">> \o S_txt
P_dj == <<"/", "a", "/", "d", ".">> \o S_json
P_bj == <<"/", "a", "/", "b", ".">> \o S_json
P_no == <<"/", "n", "o">>
P_dir == <<"/", "a">>

PathInputs == {P_ax, P_dj, P_no, P_upper, P_png, P_cs}

SrcPaths == {P_ax, P_bx, P_dj, P_bj, P_no, P_dir}

\* what select_files can hand to a batch
BatchInputs ==
    {<<P_ax, P_bx>>, <<P_bj, P_ax>>, <<P_no, P_dj>>, <<P_ax>>, <<P_bx>>, <<P_dj>>, <<P_dir>>}

\* the two background threads select_files can have started
Threads == {"b1", "b2"}

Absent == [kind |-> "absent", bytes |-> "", readable |-> FALSE]

Directory == [kind |-> "dir", bytes |-> "", readable |-> TRUE]

File(b) == [kind |-> "file", bytes |-> b, readable |-> TRUE]

\* what the environment can write into a source file
EditBlobs(path) == IF path = P_dj THEN {"ann", "bad"} ELSE {"hi", "yo"}

\* ------------------------------------------------------------- the index
BaseColumns ==
    {"id", "original_path", "stored_path", "mime", "category", "sha256", "added_at"}

JsonColumns == {"json_keys", "json_preview", "json_search_text"}

\* SQL NULL, which no string equals
Null == <<"NULL">>

\* a slip: the text of a document that does not parse kept as its search text
NoMeta_RawText == [json_keys |-> Null, json_preview |-> Null, json_search_text |-> <<"{", "b">>]

\* json_meta = None: the row gets no JSON columns
NoMeta == [json_keys |-> Null, json_preview |-> Null, json_search_text |-> Null]

RECURSIVE MaxId(_)
MaxId(rs) ==
    IF rs = <<>> THEN 0
    ELSE LET m == MaxId(Tail(rs)) IN IF Head(rs).id > m THEN Head(rs).id ELSE m

\* a row written before the JSON columns existed, with its stored file
LegacyPath == CategoryDir("text") \o <<"/", "0", "_", "l", ".">> \o S_log

LegacyRow ==
    [id |-> 1, original_path |-> <<"/", "l", ".">> \o S_log, stored_path |-> LegacyPath,
     mime |-> OctetStream, category |-> "text", sha256 |-> Sha256("yo"), added_at |-> 0,
     json_keys |-> Null, json_preview |-> Null, json_search_text |-> Null]

\* a row written by an earlier session of this program, which ingested
\* /a/d.json at millisecond 0, with its stored file
PriorPath == DestPath("json", 0, P_dj)

PriorRow ==
    [id |-> 1, original_path |-> P_dj, stored_path |-> PriorPath,
     mime |-> guess_mime(P_dj), category |-> mime_to_category(guess_mime(P_dj), P_dj),
     sha256 |-> Sha256("ann"), added_at |-> 0,
     json_keys |-> extract_metadata(JsonLoad("ann")).json_keys,
     json_preview |-> extract_metadata(JsonLoad("ann")).json_preview,
     json_search_text |-> extract_metadata(JsonLoad("ann")).json_search_text]

\* ----------------------------------------------------------------- state
VARIABLES
    src,        \* the user's files: path -> [kind, bytes, readable]
    dirs,       \* the category folders that exist under STORAGE_ROOT
    store,      \* the files under the category folders: path -> bytes
    dbExists,   \* the index file exists
    columns,    \* the columns of table files (empty: no table)
    rows,       \* the rows of table files, in insertion order
    conn,       \* DB_CONN is open (main.main has run)
    ui,         \* which window runs: "none", "main", "main_again" (the main
                \* window of a later run of main.main) or "search"
    clock,      \* time.time() in milliseconds
    batch,      \* per background thread: the state of _process_batch
    faults,     \* disturbances so far: source files changed, I/O faults
    search,     \* the call of retrieve_data that has just returned, if any
    pure,       \* a call of extract_metadata or mime_to_category on its own
    gui         \* the window of AppUI and the thread of _process_batch: the
                \* callbacks handed to root.after, the rows of the result
                \* tree, the progress label

vars == <<src, dirs, store, dbExists, columns, rows, conn, ui, clock, batch, faults,
          search, pure, gui>>

IdleThread ==
    [pc |-> "idle", paths |-> <<>>, i |-> 0, mime |-> <<>>, category |-> "",
     json_meta |-> NoMeta, timestamp |-> 0, dest |-> <<>>, sha |-> <<>>, src0 |-> Absent,
     outcomes |-> <<>>]

\* no call of retrieve_data has just returned
NoSearch == [called |-> FALSE, query |-> <<>>, result |-> <<>>]

\* no call of a function on its own
NoCall ==
    [fn |-> "none", doc |-> NoValue, mime |-> <<>>, path |-> <<>>, meta |-> EmptyMeta,
     category |-> "", bytes |-> "", pattern |-> <<>>, matched |-> FALSE, text |-> <<>>,
     done |-> FALSE]

\* AppUI as built by __init__: the label reads "Ready", the tree is empty,
\* no batch has been started
NoGui ==
    [root |-> "alive", queue |-> <<>>, tree |-> <<>>, progress |-> <<"Ready">>,
     pc |-> "idle", paths |-> <<>>, i |-> 0, res |-> "", outcomes |-> <<>>]

Init ==
    /\ pure = NoCall
    /\ gui = NoGui
    /\ src = [p \in SrcPaths |->
                 CASE p = P_ax -> File("hi")
                   [] p = P_bx -> File("yo")
                   [] p = P_dj -> File("ann")
                   [] p = P_bj -> File("bad")
                   [] p = P_dir -> Directory
                   [] OTHER -> Absent]
    /\ \/ /\ dbExists = FALSE
          /\ columns = {}
          /\ rows = <<>>
          /\ dirs = {}
          /\ store = <<>>
       \/ /\ dbExists = TRUE
          /\ columns = BaseColumns
          /\ rows = <<LegacyRow>>
          /\ dirs = {"text"}
          /\ store = (LegacyPath :> "yo")
       \/ /\ dbExists = TRUE
          /\ columns = BaseColumns \cup JsonColumns
          /\ rows = <<PriorRow>>
          /\ dirs = CategoryNames
          /\ store = (PriorPath :> "ann")
    /\ conn = FALSE
    /\ ui = "none"
    /\ clock = 1
    /\ batch = [t \in Threads |-> IdleThread]
    /\ faults = 0
    /\ search = NoSearch

\* ----------------------------------------------------------- provisioning
\* CREATE TABLE IF NOT EXISTS files (...) with the given columns
CreateTableIfNotExists(cols, wanted) == IF cols = {} THEN wanted ELSE cols

\* upgrade_db: three ALTER TABLE ... ADD COLUMN, each failure swallowed
UpgradedColumns(cols) == cols \cup JsonColumns

\* Creating_Storage.setup_user_storage: the folders, the index file and the
\* table with all ten columns
SetupColumns(cols) == CreateTableIfNotExists(cols, BaseColumns \cup JsonColumns)

\* main.main: setup_user_storage, the category folders, init_db, upgrade_db
\* (at the start, and again when go_back of the search window calls it)
MainColumns(cols) ==
    UpgradedColumns(CreateTableIfNotExists(SetupColumns(cols), BaseColumns))

\* a slip: the table of a store that exists is made anew, as by DROP TABLE
\* and CREATE TABLE, and its rows are lost
ProvisionedRows_Recreated(rs) == <<>>

\* provisioning never touches the rows
ProvisionedRows(rs) == rs

\* the windows of AppUI
MainWindows == {"main", "main_again"}

MainMain ==
    /\ ui \in {"none", "search"}
    /\ dirs' = CategoryNames
    /\ dbExists' = TRUE
    /\ columns' = MainColumns(columns)
    /\ rows' = ProvisionedRows(rows)
    /\ conn' = TRUE
    /\ ui' = IF conn THEN "main_again" ELSE "main"
    /\ search' = NoSearch
    /\ UNCHANGED <<gui, pure, src, store, clock, batch, faults>>

\* Search_UI.main started on its own: setup_user_storage and
\* create_storage_folders, no upgrade_db
SearchMain ==
    /\ ui = "none"
    /\ dirs' = CategoryNames
    /\ dbExists' = TRUE
    /\ columns' = SetupColumns(columns)
    /\ rows' = ProvisionedRows(rows)
    /\ ui' = "search"
    /\ search' = NoSearch
    /\ UNCHANGED <<gui, pure, src, store, conn, clock, batch, faults>>

\* AppUI.open_search_ui: the main window is destroyed and Search_UI.main
\* runs with the session's storage_root and db_path
OpenSearchUI ==
    /\ ui \in MainWindows
    /\ dirs' = CategoryNames
    /\ ui' = "search"
    /\ search' = NoSearch
    /\ UNCHANGED <<gui, pure, src, store, dbExists, columns, rows, conn, clock, batch, faults>>

\* ------------------------------------------------------------ environment
Tick ==
    /\ clock < MaxClock
    /\ clock' = clock + 1
    /\ search' = NoSearch
    /\ UNCHANGED <<gui, pure, src, dirs, store, dbExists, columns, rows, conn, ui, batch, faults>>

\* the user, or another program, rewrites, removes or locks a source file
EnvChange ==
    /\ faults < MaxFaults
    /\ faults' = faults + 1
    /\ \E p \in {P_ax, P_dj} :
          /\ src[p].kind = "file"
          /\ \/ \E b \in EditBlobs(p) \ {src[p].bytes} : src' = [src EXCEPT ![p].bytes = b]
             \/ src' = [src EXCEPT ![p] = Absent]
             \/ /\ src[p].readable
                /\ src' = [src EXCEPT ![p].readable = FALSE]
    /\ search' = NoSearch
    /\ UNCHANGED <<gui, pure, dirs, store, dbExists, columns, rows, conn, ui, clock, batch>>

\* ------------------------------------------- process_and_store_file
CurPath(t) == batch[t].paths[batch[t].i]

\* a slip: only p.exists() is asked
IsRegularFile_ExistsOnly(f) == f.kind # "absent"

\* p.exists() and p.is_file()
IsRegularFile(f) == f.kind = "file"

\* open(path, "rb") succeeds
CanRead(f) == f.kind = "file" /\ f.readable

\* a slip: the lookup misses and every file goes to the default folder
FolderOf_AlwaysOther(category) == "other"

\* CATEGORIES.get(category, CATEGORIES["other"])
FolderOf(category) == IF category \in CategoryNames THEN category ELSE "other"

\* How a run ended.  status "copied" and "error" are the returned dicts;
\* status "exception" records that the call raised instead of returning.
\* seen and srcThen are what the stored path and the source held at that
\* moment, src0 what the source held when the run began.
Outcome(status, reason, path, t, id, seen) ==
    [status |-> status, reason |-> reason, path |-> path, id |-> id,
     stored_path |-> batch[t].dest, mime |-> batch[t].mime,
     category |-> batch[t].category, sha256 |-> batch[t].sha,
     json_meta |-> batch[t].json_meta, seen |-> seen, srcThen |-> src[path],
     src0 |-> batch[t].src0]

\* the loop of _process_batch goes on with the next path, or ends (its
\* calls into Tk, which touch the window alone, are the steps BatchBegin to
\* BatchFinish further down)
Returned(t, outcome) ==
    LET b == batch[t]
        last == b.i = Len(b.paths)
    IN batch' = [batch EXCEPT ![t] =
                    [IdleThread EXCEPT !.pc = IF last THEN "done" ELSE "validate",
                                       !.paths = b.paths,
                                       !.i = IF last THEN b.i ELSE b.i + 1,
                                       !.outcomes = Append(b.outcomes, outcome)]]

\* an exception leaves process_and_store_file and, nothing in _process_batch
\* catching it, ends the thread
Raised(t, outcome) ==
    batch' = [batch EXCEPT ![t] =
                 [IdleThread EXCEPT !.pc = "crashed",
                                    !.paths = batch[t].paths,
                                    !.i = batch[t].i,
                                    !.outcomes = Append(batch[t].outcomes, outcome)]]

\* the paths handed to select_files so far
Submitted == Len(batch["b1"].paths) + Len(batch["b2"].paths)

Running(t) == batch[t].pc \notin {"idle", "done", "crashed"}

\* AppUI.select_files: a thread running _process_batch(paths).  Nothing
\* keeps the user from starting a batch while another runs; with
\* overlap = FALSE only the runs in which the user waits are taken.
StartBatch(t, overlap) ==
    /\ ui \in MainWindows
    /\ batch[t].pc = "idle"
    /\ t = "b2" => batch["b1"].pc # "idle"
    /\ overlap \/ \A u \in Threads : ~Running(u)
    /\ \E paths \in BatchInputs :
          /\ Submitted + Len(paths) <= MaxFiles
          /\ batch' = [batch EXCEPT ![t] = [IdleThread EXCEPT !.pc = "validate",
                                                           !.paths = paths, !.i = 1]]
    /\ search' = NoSearch
    /\ UNCHANGED <<gui, pure, src, dirs, store, dbExists, columns, rows, conn, ui, clock, faults>>

\* a slip: the copy is made before the folder, the timestamp and sha256_file
\* of lines 156-162
Validate_CopyFirst(t) ==
    /\ batch[t].pc = "validate"
    /\ LET path == CurPath(t)
           mime == guess_mime(path)
           category == mime_to_category(mime, path)
       IN IF ~IsRegularFile(src[path])
          THEN Returned(t, Outcome("error", "not_found", path, t, 0, ""))
          ELSE batch' = [batch EXCEPT ![t].pc = "copy",
                                      ![t].mime = mime,
                                      ![t].category = category,
                                      ![t].dest = DestPath(FolderOf(category), clock, path),
                                      ![t].src0 = src[path]]
    /\ search' = NoSearch
    /\ UNCHANGED <<gui, pure, src, dirs, store, dbExists, columns, rows, conn, ui, clock, faults>>

\* lines 143-151: the existence check, guess_mime, mime_to_category
Validate(t) ==
    /\ batch[t].pc = "validate"
    /\ LET path == CurPath(t)
           mime == guess_mime(path)
           category == mime_to_category(mime, path)
       IN IF ~IsRegularFile(src[path])
          THEN Returned(t, Outcome("error", "not_found", path, t, 0, ""))
          ELSE batch' = [batch EXCEPT ![t].pc = IF category = "json" THEN "is_json"
                                                 ELSE "fingerprint",
                                      ![t].mime = mime,
                                      ![t].category = category,
                                      ![t].src0 = src[path]]
    /\ search' = NoSearch
    /\ UNCHANGED <<gui, pure, src, dirs, store, dbExists, columns, rows, conn, ui, clock, faults>>

\* process_json_file, lines 54-59: the first read of the file
IsJsonStep(t) ==
    /\ batch[t].pc = "is_json"
    /\ LET f == src[CurPath(t)]
       IN batch' = [batch EXCEPT ![t].pc =
                       IF f.kind = "file" /\ is_json(f.readable, f.bytes) THEN "load_json"
                       ELSE "fingerprint"]
    /\ search' = NoSearch
    /\ UNCHANGED <<gui, pure, src, dirs, store, dbExists, columns, rows, conn, ui, clock, faults>>

\* the metadata process_json_file returns for what load_json read
MetaOf(data) == IF data = NoValue THEN NoMeta ELSE extract_metadata(data)

\* process_json_file, lines 61-66: the second read, and extract_metadata
LoadJsonStep(t) ==
    /\ batch[t].pc = "load_json"
    /\ LET f == src[CurPath(t)]
           data == IF f.kind = "file" THEN load_json(f.readable, f.bytes) ELSE NoValue
       IN batch' = [batch EXCEPT ![t].pc = "fingerprint", ![t].json_meta = MetaOf(data)]
    /\ search' = NoSearch
    /\ UNCHANGED <<gui, pure, src, dirs, store, dbExists, columns, rows, conn, ui, clock, faults>>

\* lines 156-162: the folder, the timestamp, the destination, sha256_file
Fingerprint(t) ==
    /\ batch[t].pc = "fingerprint"
    /\ dirs' = dirs \cup {FolderOf(batch[t].category)}
    /\ LET path == CurPath(t)
           f == src[path]
       IN IF CanRead(f)
          THEN batch' = [batch EXCEPT ![t].pc = "copy",
                                      ![t].timestamp = clock,
                                      ![t].dest = DestPath(FolderOf(batch[t].category),
                                                           clock, path),
                                      ![t].sha = Sha256(f.bytes)]
          ELSE Raised(t, Outcome("exception", "fingerprint", path, t, 0, ""))
    /\ search' = NoSearch
    /\ UNCHANGED <<gui, pure, src, store, dbExists, columns, rows, conn, ui, clock, faults>>

\* the bytes at a stored path, "" when there is no such file
StoredBytes(st, path) == IF path \in DOMAIN st THEN st[path] ELSE ""

\* a slip: the copy is skipped, as under dry_run, and the row still written
CopiedStore_Skipped(st, dest, bytes) == st

\* shutil.copy2 writes the source's bytes to the destination
CopiedStore(st, dest, bytes) == (dest :> bytes) @@ st

\* lines 164-167: the copy.  It fails when the source can no longer be
\* read, and when the destination cannot be written: then the destination
\* is left as it was, truncated, or complete (copystat failing).
Copy(t) ==
    /\ batch[t].pc = "copy"
    /\ LET path == CurPath(t)
           f == src[path]
           dest == batch[t].dest
       IN \/ /\ CanRead(f)
             /\ store' = CopiedStore(store, dest, f.bytes)
             /\ batch' = [batch EXCEPT ![t].pc = "insert"]
             /\ UNCHANGED faults
          \/ /\ ~CanRead(f)
             /\ Returned(t, Outcome("error", "copy", path, t, 0, StoredBytes(store, dest)))
             /\ UNCHANGED <<store, faults>>
          \/ /\ CanRead(f)
             /\ faults < MaxFaults
             /\ faults' = faults + 1
             /\ \E left \in {"untouched", "truncated", "complete"} :
                   store' = CASE left = "untouched" -> store
                              [] left = "truncated" -> CopiedStore(store, dest, "")
                              [] left = "complete" -> CopiedStore(store, dest, f.bytes)
             /\ Returned(t, Outcome("error", "copy", path, t, 0, StoredBytes(store', dest)))
    /\ search' = NoSearch
    /\ UNCHANGED <<gui, pure, src, dirs, dbExists, columns, rows, conn, ui, clock>>

\* a slip: INSERT OR REPLACE keyed on stored_path, the row of an equal path
\* being overwritten
InsertedRows_Replace(rs, rec) ==
    IF \E i \in 1..Len(rs) : rs[i].stored_path = rec.stored_path
    THEN [i \in 1..Len(rs) |->
             IF rs[i].stored_path = rec.stored_path THEN [rec EXCEPT !.id = rs[i].id]
             ELSE rs[i]]
    ELSE Append(rs, [rec EXCEPT !.id = MaxId(rs) + 1])

\* a slip: the digest is looked up first and content the index already
\* holds gets no second row
InsertedRows_Dedup(rs, rec) ==
    IF \E i \in 1..Len(rs) : rs[i].sha256 = rec.sha256 THEN rs
    ELSE Append(rs, [rec EXCEPT !.id = MaxId(rs) + 1])

\* INSERT INTO files ...; commit: a new row after the others, its id the
\* next of the AUTOINCREMENT key
InsertedRows(rs, rec) == Append(rs, [rec EXCEPT !.id = MaxId(rs) + 1])

\* lines 169-195: the row, with the JSON columns when there is metadata
\* (insert_record otherwise), and the returned dict.  The statement raises
\* when a column it names is missing, and when SQLite reports an error.
Insert(t) ==
    /\ batch[t].pc = "insert"
    /\ LET path == CurPath(t)
           b == batch[t]
           rec == [id |-> 0, original_path |-> path, stored_path |-> b.dest,
                   mime |-> b.mime, category |-> b.category, sha256 |-> b.sha,
                   added_at |-> clock, json_keys |-> b.json_meta.json_keys,
                   json_preview |-> b.json_meta.json_preview,
                   json_search_text |-> b.json_meta.json_search_text]
           named == IF b.json_meta # NoMeta THEN BaseColumns \cup JsonColumns
                    ELSE BaseColumns
       IN \/ /\ IF conn /\ named \subseteq columns
                THEN /\ rows' = InsertedRows(rows, rec)
                     /\ Returned(t, Outcome("copied", "", path, t, MaxId(rows') ,
                                            StoredBytes(store, b.dest)))
                ELSE /\ rows' = rows
                     /\ Raised(t, Outcome("exception", "insert", path, t, 0,
                                          StoredBytes(store, b.dest)))
             /\ UNCHANGED faults
          \/ /\ faults < MaxFaults
             /\ faults' = faults + 1
             /\ rows' = rows
             /\ Raised(t, Outcome("exception", "insert", path, t, 0,
                                  StoredBytes(store, b.dest)))
    /\ search' = NoSearch
    /\ UNCHANGED <<gui, pure, src, dirs, store, dbExists, columns, conn, ui, clock>>

\* ------------------------------------------------------------ Search_UI.py
\* SQLite's LIKE: % is any run of characters, _ any one character, letters
\* compare without case
RECURSIVE LikeMatch(_, _)
LikeMatch(pat, txt) ==
    IF pat = <<>> THEN txt = <<>>
    ELSE IF Head(pat) = "%"
    THEN LikeMatch(Tail(pat), txt) \/ (txt # <<>> /\ LikeMatch(pat, Tail(txt)))
    ELSE IF Head(pat) = "_" THEN txt # <<>> /\ LikeMatch(Tail(pat), Tail(txt))
    ELSE /\ txt # <<>>
         /\ LowerChar(Head(pat)) = LowerChar(Head(txt))
         /\ LikeMatch(Tail(pat), Tail(txt))

\* column LIKE '%query%'; NULL matches nothing
Like(column, query) == column # Null /\ LikeMatch(<<"%">> \o query \o <<"%">>, column)

\* re.sub(r'^\d+_', '', name)
RECURSIVE StripDigits(_)
StripDigits(s) == IF s # <<>> /\ Head(s) \in DigitChars THEN StripDigits(Tail(s)) ELSE s

strip_leading_timestamp(name) ==
    LET rest == StripDigits(name)
    IN IF Len(rest) < Len(name) /\ rest # <<>> /\ Head(rest) = "_" THEN Tail(rest) ELSE name

RECURSIVE Reverse(_)
Reverse(s) == IF s = <<>> THEN <<>> ELSE Append(Reverse(Tail(s)), Head(s))

RECURSIVE SelectSeq2(_, _, _)
\* the members of s of which Test(x, arg) holds, in order
SelectSeq2(s, Test(_, _), arg) ==
    IF s = <<>> THEN <<>>
    ELSE (IF Test(Head(s), arg) THEN <<Head(s)>> ELSE <<>>) \o SelectSeq2(Tail(s), Test, arg)

\* a slip: the WHERE clause without its third alternative
RowMatches_PathsOnly(r, query) ==
    \/ Like(r.stored_path, query)
    \/ Like(r.original_path, query)

\* the WHERE clause of db_search
RowMatches(r, query) ==
    \/ Like(r.stored_path, query)
    \/ Like(r.original_path, query)
    \/ Like(r.json_search_text, query)

\* the descriptor db_search builds from a row
RowDescriptor(r) ==
    LET filename == Basename(r.stored_path)
    IN [type |-> IF r.category # "" THEN CatChars(r.category)
                 ELSE Basename(Dirname(r.stored_path)),
        source |-> filename,
        display |-> strip_leading_timestamp(filename),
        path |-> r.stored_path,
        json_preview |-> IF r.json_preview # Null THEN r.json_preview ELSE <<>>]

\* the columns the SELECT of db_search names
QueryColumns ==
    {"id", "stored_path", "mime", "category", "original_path", "json_preview",
     "json_search_text"}

\* a slip: on a table without the JSON columns the statement is made over
\* the two path columns alone
db_search_PathColumnsOnly(query) ==
    IF ~dbExists \/ ~({"id", "stored_path", "mime", "category", "original_path"}
                        \subseteq columns)
    THEN <<>>
    ELSE LET Hit(r, q) == Like(r.stored_path, q) \/ Like(r.original_path, q)
             hits == Take(Reverse(SelectSeq2(rows, Hit, query)), SearchLimit)
         IN [i \in 1..Len(hits) |-> RowDescriptor(hits[i])]

\* db_search(query, db_path): no rows when the index file is missing or the
\* statement fails (a column it names is missing); else the matching rows,
\* newest first, at most SearchLimit of them
db_search(query) ==
    IF ~dbExists \/ ~(QueryColumns \subseteq columns)
    THEN <<>>
    ELSE LET hits == Take(Reverse(SelectSeq2(rows, RowMatches, query)), SearchLimit)
         IN [i \in 1..Len(hits) |-> RowDescriptor(hits[i])]

\* the extensions whose content fs_search reads
ContentExtensions ==
    {<<".">> \o S_txt, <<".">> \o S_json, <<".", "m", "d">>, <<".", "c", "s", "v">>,
     <<".">> \o S_log, <<".", "p", "y">>}

ContentReadLimit == 200000

\* cat_filter is None (here Null) or a string; `if cat_filter` is false for
\* None and for the empty string
FilterActive(cat_filter) == cat_filter # Null /\ cat_filter # <<>>

\* lines 93-102: the content test of fs_search on a file of the given
\* lowercased name holding the given bytes
matches_text(name_lower, bytes, q) ==
    /\ q # <<>>
    /\ \E e \in ContentExtensions : EndsWith(name_lower, e)
    /\ Contains(Lower(Take(BlobText(bytes), ContentReadLimit)), q)

\* a slip: the walk compares the names alone and never opens a file
FsMatches_NameOnly(path, q, cat_filter) ==
    LET file_type == Lower(Basename(Dirname(path)))
        name_lower == Lower(Basename(path))
    IN /\ ~(FilterActive(cat_filter) /\ file_type # cat_filter)
       /\ (q # <<>> /\ Contains(name_lower, q)) \/ q = <<>>

\* the test fs_search makes on one file of the walk
FsMatches(path, q, cat_filter) ==
    LET filename == Basename(path)
        file_type == Lower(Basename(Dirname(path)))
        name_lower == Lower(filename)
        matches_name == (q # <<>> /\ Contains(name_lower, q)) \/ q = <<>>
    IN /\ ~(FilterActive(cat_filter) /\ file_type # cat_filter)
       /\ matches_name \/ matches_text(name_lower, store[path], q)

FsDescriptor(path) ==
    [type |-> Lower(Basename(Dirname(path))),
     source |-> Basename(path),
     display |-> strip_leading_timestamp(Basename(path)),
     path |-> path,
     json_preview |-> Null]

\* fs_search(query, storage_root, cat_filter): the descriptors of the files
\* of the walk that match; the walk's order is the file system's
fs_search(query, cat_filter) ==
    {FsDescriptor(path) : path \in {x \in DOMAIN store : FsMatches(x, Lower(query), cat_filter)}}

\* the orders in which a walk can list a set of descriptors
Orderings(S) ==
    {seq \in [1..Cardinality(S) -> S] : \A i, j \in 1..Cardinality(S) : i # j => seq[i] # seq[j]}

\* lines 118-124: the query split into the pattern and the category filter
ParsedQuery(query) ==
    LET q == Strip(query)
    IN IF StartsWith(Lower(q), S_type)
       THEN [q |-> <<>>,
             cat_filter |-> Lower(Strip(SubSeq(q, FirstIndexOf(q, ":") + 1, Len(q))))]
       ELSE [q |-> q, cat_filter |-> Null]

TypeIs(r, cat_filter) == Lower(r.type) = cat_filter

\* lines 126-133: the index tier: the rows of db_search, filtered by the
\* category when a filter is active
IndexTier(query) ==
    LET pq == ParsedQuery(query)
        db_results == IF dbExists THEN db_search(pq.q) ELSE <<>>
    IN [found |-> db_results # <<>>,
        results |-> IF FilterActive(pq.cat_filter)
                    THEN SelectSeq2(db_results, TypeIs, pq.cat_filter)
                    ELSE db_results]

\* retrieve_data(query, storage_root, db_path): the results it can return
retrieve_data(query) ==
    IF query = <<>> THEN {<<>>}
    ELSE IF IndexTier(query).found THEN {IndexTier(query).results}
    ELSE Orderings(fs_search(ParsedQuery(query).q, ParsedQuery(query).cat_filter))

Q_json == S_type \o S_json
Q_none == S_type
Q_text == <<" ", "T", "y", "p", "e", ":", " ">> \o S_text
Q_hi == <<"h", "i">>
Q_x == <<"X">>
Q_o == <<"o">>
Q_an == <<"a", "n">>

Queries == {Q_json, Q_none, Q_text, Q_hi, Q_x, Q_o, Q_an}

\* a slip: the content files are opened for writing, which empties them
Search_Truncating ==
    /\ ui = "search"
    /\ \E query \in Queries :
          \E result \in retrieve_data(Strip(query)) :
             search' = [called |-> TRUE, query |-> Strip(query), result |-> result]
    /\ store' = [path \in DOMAIN store |-> ""]
    /\ UNCHANGED <<gui, pure, src, dirs, dbExists, columns, rows, conn, ui, clock, batch,
                   faults>>

\* perform_search: the user's query, stripped and not empty, goes to
\* retrieve_data
Search ==
    /\ ui = "search"
    /\ \E query \in Queries :
          \E result \in retrieve_data(Strip(query)) :
             search' = [called |-> TRUE, query |-> Strip(query), result |-> result]
    /\ UNCHANGED <<gui, pure, src, dirs, store, dbExists, columns, rows, conn, ui, clock, batch,
                   faults>>

\* ------------------------------------------------------------------ system
Next ==
    \/ MainMain
    \/ SearchMain
    \/ OpenSearchUI
    \/ Tick
    \/ EnvChange
    \/ Search
    \/ \E t \in Threads :
          \/ StartBatch(t, FALSE)
          \/ Validate(t)
          \/ IsJsonStep(t)
          \/ LoadJsonStep(t)
          \/ Fingerprint(t)
          \/ Copy(t)
          \/ Insert(t)

\* every operation, the batches one after the other
Spec == Init /\ [][Next]_vars

NextRace ==
    \/ MainMain
    \/ OpenSearchUI
    \/ Tick
    \/ EnvChange
    \/ \E t \in Threads :
          \/ StartBatch(t, TRUE)
          \/ Validate(t)
          \/ IsJsonStep(t)
          \/ LoadJsonStep(t)
          \/ Fingerprint(t)
          \/ Copy(t)
          \/ Insert(t)

\* the ingestion side alone, with batches that overlap
SpecRace == Init /\ [][NextRace]_vars

\* ------------------------------------------- the functions on their own
\* the bytes and the patterns of the content test on its own
ContentInputs == {"hi", "ann", "bad"}

ContentPatterns == {Q_hi, Q_x, Q_an, <<"{">>, <<"b">>}

\* the files and the index play no part: an empty store
InitPure ==
    /\ gui = NoGui
    /\ src = [p \in SrcPaths |-> Absent]
    /\ dbExists = FALSE
    /\ columns = {}
    /\ rows = <<>>
    /\ dirs = {}
    /\ store = <<>>
    /\ conn = FALSE
    /\ ui = "none"
    /\ clock = 1
    /\ batch = [t \in Threads |-> IdleThread]
    /\ faults = 0
    /\ search = NoSearch
    /\ \/ \E d \in Docs : pure = [NoCall EXCEPT !.fn = "extract_metadata", !.doc = d]
       \/ \E m \in MimeInputs, p \in PathInputs :
             pure = [NoCall EXCEPT !.fn = "mime_to_category", !.mime = m, !.path = p]
       \/ \E p \in PathInputs, b \in ContentInputs, q \in ContentPatterns :
             pure = [NoCall EXCEPT !.fn = "matches_text", !.path = p, !.bytes = b,
                                   !.pattern = q]

ApplyExtractMetadata ==
    /\ pure.fn = "extract_metadata"
    /\ ~pure.done
    /\ pure' = [pure EXCEPT !.meta = extract_metadata(pure.doc), !.done = TRUE]
    /\ UNCHANGED <<gui, src, dirs, store, dbExists, columns, rows, conn, ui, clock, batch,
                   faults, search>>

ApplyMimeToCategory ==
    /\ pure.fn = "mime_to_category"
    /\ ~pure.done
    /\ pure' = [pure EXCEPT !.category = mime_to_category(pure.mime, pure.path),
                            !.done = TRUE]
    /\ UNCHANGED <<gui, src, dirs, store, dbExists, columns, rows, conn, ui, clock, batch,
                   faults, search>>

\* the content test of fs_search(pattern, ...) on a file of the given name
\* and bytes, and extract_text_from_any_file on the same file
ApplyMatchesText ==
    /\ pure.fn = "matches_text"
    /\ ~pure.done
    /\ pure' = [pure EXCEPT
                   !.matched = matches_text(Lower(Basename(pure.path)), pure.bytes,
                                            Lower(pure.pattern)),
                   !.text = extract_text_from_any_file(pure.path, pure.bytes),
                   !.done = TRUE]
    /\ UNCHANGED <<gui, src, dirs, store, dbExists, columns, rows, conn, ui, clock, batch,
                   faults, search>>

NextPure == ApplyExtractMetadata \/ ApplyMimeToCategory \/ ApplyMatchesText

\* extract_metadata, mime_to_category and the content test, each applied
\* to one input
SpecPure == InitPure /\ [][NextPure]_vars

\* ----------------------------------------- _process_batch and the window
\* the batches of the result tree's model: /a/x.txt is a file, /no is not
GuiBatches ==
    {<<P_ax>>, <<P_no>>, <<P_ax, P_ax>>, <<P_ax, P_no>>, <<P_no, P_ax>>, <<P_no, P_no>>}

InitGui ==
    /\ gui = NoGui
    /\ src = [p \in SrcPaths |-> IF p = P_ax THEN File("hi") ELSE Absent]
    /\ dbExists = TRUE
    /\ columns = BaseColumns \cup JsonColumns
    /\ rows = <<>>
    /\ dirs = CategoryNames
    /\ store = <<>>
    /\ conn = TRUE
    /\ ui = "main"
    /\ clock = 1
    /\ batch = [t \in Threads |-> IdleThread]
    /\ faults = 0
    /\ search = NoSearch
    /\ pure = NoCall

\* how a call of process_and_store_file(path) can end: the returned status,
\* or "exception" when the call raises (sha256_file, mkdir, the INSERT)
ProcessOutcomes(path) ==
    IF ~IsRegularFile(src[path]) THEN {"error"} ELSE {"copied", "error", "exception"}

\* a callback _process_batch hands to root.after: op "progress" sets the
\* label to text, "insert" adds a row for path with the status, "item" gives
\* the row iid the path and the status
Callback(op, text, iid, path, status) ==
    [op |-> op, text |-> text, iid |-> iid, path |-> path, status |-> status]

\* In the four steps of the thread, a call into Tk (root.after,
\* tree.get_children) raises once the root window is destroyed, and nothing
\* in _process_batch catches it.
\* AppUI.select_files: the thread is started
GuiSelectFiles ==
    /\ gui.root = "alive"
    /\ gui.pc = "idle"
    /\ \E paths \in GuiBatches : gui' = [gui EXCEPT !.pc = "begin", !.paths = paths, !.i = 1]
    /\ UNCHANGED <<src, dirs, store, dbExists, columns, rows, conn, ui, clock, batch, faults,
                   search, pure>>

\* line 269: root.after(0, ... "Processing 0/total")
BatchBegin ==
    /\ gui.pc = "begin"
    /\ gui' = IF gui.root = "alive"
              THEN [gui EXCEPT !.pc = "row",
                               !.queue = Append(@, Callback("progress",
                                             <<"Processing", 0, Len(gui.paths)>>, 0, <<>>, ""))]
              ELSE [gui EXCEPT !.pc = "crashed"]
    /\ UNCHANGED <<src, dirs, store, dbExists, columns, rows, conn, ui, clock, batch, faults,
                   search, pure>>

\* lines 271-276: root.after(0, ... tree.insert(... "processing")), then
\* the call of process_and_store_file
BatchRow ==
    /\ gui.pc = "row"
    /\ LET p == gui.paths[gui.i]
       IN IF gui.root # "alive" THEN gui' = [gui EXCEPT !.pc = "crashed"]
          ELSE \E status \in ProcessOutcomes(p) :
                  gui' = [gui EXCEPT
                             !.queue = Append(@, Callback("insert", <<>>, 0, p, "processing")),
                             !.outcomes = Append(@, status),
                             !.res = status,
                             !.pc = IF status = "exception" THEN "crashed" ELSE "show"]
    /\ UNCHANGED <<src, dirs, store, dbExists, columns, rows, conn, ui, clock, batch, faults,
                   search, pure>>

\* lines 277-288: children = tree.get_children(); if there are any, the
\* last one is to get the values of this file; then the progress text
BatchShow ==
    /\ gui.pc = "show"
    /\ LET p == gui.paths[gui.i]
           children == gui.tree
           update == IF children # <<>>
                     THEN <<Callback("item", <<>>, Len(children), p, gui.res)>> ELSE <<>>
           progress == Callback("progress", <<"Processing", gui.i, Len(gui.paths)>>, 0, <<>>, "")
       IN gui' = IF gui.root = "alive"
                 THEN [gui EXCEPT
                          !.queue = @ \o update \o <<progress>>,
                          !.i = IF gui.i < Len(gui.paths) THEN gui.i + 1 ELSE gui.i,
                          !.pc = IF gui.i < Len(gui.paths) THEN "row" ELSE "finish"]
                 ELSE [gui EXCEPT !.pc = "crashed"]
    /\ UNCHANGED <<src, dirs, store, dbExists, columns, rows, conn, ui, clock, batch, faults,
                   search, pure>>

\* line 289: root.after(0, ... "Done"), and the thread ends
BatchFinish ==
    /\ gui.pc = "finish"
    /\ gui' = IF gui.root = "alive"
              THEN [gui EXCEPT !.pc = "done",
                               !.queue = Append(@, Callback("progress", <<"Done">>, 0, <<>>, ""))]
              ELSE [gui EXCEPT !.pc = "crashed"]
    /\ UNCHANGED <<src, dirs, store, dbExists, columns, rows, conn, ui, clock, batch, faults,
                   search, pure>>

\* root.mainloop() runs the oldest callback handed to root.after
MainLoop ==
    /\ gui.root = "alive"
    /\ gui.queue # <<>>
    /\ LET cb == Head(gui.queue)
           row == [path |-> cb.path, status |-> cb.status]
       IN gui' = [gui EXCEPT
                     !.queue = Tail(@),
                     !.progress = IF cb.op = "progress" THEN cb.text ELSE @,
                     !.tree = CASE cb.op = "insert" -> Append(@, row)
                                [] cb.op = "item" -> [@ EXCEPT ![cb.iid] = row]
                                [] OTHER -> @]
    /\ UNCHANGED <<src, dirs, store, dbExists, columns, rows, conn, ui, clock, batch, faults,
                   search, pure>>

\* AppUI.open_search_ui: root.destroy(), then the search window; what was
\* handed to root.after and has not run never runs
GuiOpenSearch ==
    /\ gui.root = "alive"
    /\ gui' = [gui EXCEPT !.root = "destroyed"]
    /\ ui' = "search"
    /\ UNCHANGED <<src, dirs, store, dbExists, columns, rows, conn, clock, batch, faults,
                   search, pure>>

BatchThread == BatchBegin \/ BatchRow \/ BatchShow \/ BatchFinish

NextGui == GuiSelectFiles \/ BatchThread \/ MainLoop \/ GuiOpenSearch

\* one batch and its window; the thread runs when it can, and so does the
\* event loop (the scheduler of the threads and root.mainloop are fair)
SpecBatchUI ==
    InitGui /\ [][NextGui]_vars /\ WF_vars(BatchThread) /\ WF_vars(MainLoop)


\* ------------------------------------------------------------ properties
\* how the runs of process_and_store_file ended, over all batches
Outcomes == UNION {{batch[t].outcomes[k] : k \in 1..Len(batch[t].outcomes)} : t \in Threads}

\* C1: a run that returns "copied" leaves at the returned stored_path the
\* bytes of the source file, the source file being what it was when the
\* run began.
C1_RoundTrip ==
    \A o \in Outcomes :
       (o.status = "copied" /\ o.srcThen = o.src0) => o.seen = o.src0.bytes

\* C2: every row's sha256 is the digest of the bytes now at its stored_path.
C2_ShaMatchesStored ==
    \A i \in 1..Len(rows) :
       /\ rows[i].stored_path \in DOMAIN store
       /\ rows[i].sha256 = Sha256(store[rows[i].stored_path])

\* C3: no two rows have the same stored_path.
C3_StoredPathUnique ==
    \A i, j \in 1..Len(rows) : i # j => rows[i].stored_path # rows[j].stored_path

\* C4: the index is append-only: every step leaves the existing rows as
\* they are and adds at most one row, whose id is greater than every
\* existing id.
C4_AppendOnly ==
    [][/\ Len(rows') \in {Len(rows), Len(rows) + 1}
       /\ \A i \in 1..Len(rows) : rows'[i] = rows[i]
       /\ Len(rows') = Len(rows) + 1 => rows'[Len(rows')].id > MaxId(rows)]_vars

\* C4 witness: a row that was there before provisioning has lived through
\* the migration and an insertion after it.
C4_Witness ==
    /\ Len(rows) >= 2
    /\ rows[1] = LegacyRow
    /\ JsonColumns \subseteq columns

\* C5: every run ends with a returned outcome tagged copied, dry-run or
\* error; none ends with an exception.
C5_TaggedOutcome == \A o \in Outcomes : o.status \in {"copied", "dry-run", "error"}

\* C6: a batch that is over has processed every path handed to it, in the
\* order of submission.
C6_BatchCompletes ==
    \A t \in Threads :
       batch[t].pc \in {"done", "crashed"} =>
          /\ Len(batch[t].outcomes) = Len(batch[t].paths)
          /\ \A k \in 1..Len(batch[t].paths) : batch[t].outcomes[k].path = batch[t].paths[k]

\* C7: the step that finds the path missing, or not a regular file, ends
\* the run with the outcome error / not_found and changes neither the rows
\* nor the stored files nor the folders.
C7_NotFound ==
    [][\A t \in Threads :
          (/\ batch[t].pc = "validate"
           /\ src[CurPath(t)].kind # "file"
           /\ batch'[t] # batch[t])
          => /\ Len(batch'[t].outcomes) = Len(batch[t].outcomes) + 1
             /\ LET o == Last(batch'[t].outcomes)
                IN o.status = "error" /\ o.reason = "not_found" /\ o.path = CurPath(t)
             /\ rows' = rows
             /\ store' = store
             /\ dirs' = dirs]_vars

\* C7 witness: a missing path and a directory have both been refused, and
\* the batch went on to store the next file.
C7_Witness ==
    /\ \E o \in Outcomes : o.reason = "not_found" /\ o.path = P_no
    /\ \E o \in Outcomes : o.status = "copied" /\ o.path = P_dj

IsEmptyText(x) == x \in {Null, <<>>}

\* the run of o was one of a file classified as json whose content does not
\* parse, readable and unchanged while the run lasted, and neither the copy
\* nor the statement writing the row failed
UnparseableJsonRun(o) ==
    /\ o.category = "json"
    /\ o.src0.kind = "file"
    /\ o.src0.readable
    /\ JsonLoad(o.src0.bytes).t = "invalid"
    /\ o.srcThen = o.src0
    /\ o.reason \notin {"copy", "insert"}

\* C8: a run on a json file that does not parse ends "copied": the file is
\* stored and one row is written for it, with empty JSON columns.
C8_InvalidJsonStored ==
    \A o \in Outcomes :
       UnparseableJsonRun(o) =>
          /\ o.status = "copied"
          /\ o.seen = o.src0.bytes
          /\ Cardinality({i \in 1..Len(rows) : rows[i].id = o.id}) = 1
          /\ \A i \in 1..Len(rows) :
                rows[i].id = o.id =>
                   /\ rows[i].original_path = o.path
                   /\ rows[i].stored_path = o.stored_path
                   /\ rows[i].category = "json"
                   /\ IsEmptyText(rows[i].json_keys)
                   /\ IsEmptyText(rows[i].json_preview)
                   /\ IsEmptyText(rows[i].json_search_text)

C8_Witness == \E o \in Outcomes : UnparseableJsonRun(o) /\ o.path = P_bj /\ o.status = "copied"

\* the category named by a type: query
TypeRemainder(query) == Lower(Strip(SubSeq(Strip(query), Len(S_type) + 1, Len(Strip(query)))))

IsTypeQuery(query) == StartsWith(Lower(Strip(query)), S_type)

\* C9: every result of a type: query has the category the query names,
\* whichever tier answered and whatever the remainder, the empty one too.
C9_TypeFilter ==
    (search.called /\ IsTypeQuery(search.query)) =>
       \A k \in 1..Len(search.result) : search.result[k].type = TypeRemainder(search.query)

\* C10: when the index tier has no row for the query (pattern and category
\* filter together), retrieve_data returns what the filesystem tier finds
\* (stated for the searches made while no ingestion runs).
C10_FallsBack ==
    (/\ search.called
     /\ \A t \in Threads : ~Running(t)
     /\ IndexTier(search.query).results = <<>>) =>
       search.result \in
          Orderings(fs_search(ParsedQuery(search.query).q, ParsedQuery(search.query).cat_filter))

\* the index cannot answer: its file is missing, or the statement of
\* db_search fails on the table as it is
IndexUnavailable == ~dbExists \/ ~(QueryColumns \subseteq columns)

Recency(path) == MaxId(SelectSeq(rows, LAMBDA r : r.stored_path = path))

\* C12: a result of a search has at most the fixed maximum of entries and
\* lists the files most recently ingested first (compared among the files
\* that have a row).
C12_CappedNewestFirst ==
    search.called =>
       /\ Len(search.result) <= SearchLimit
       /\ \A i, j \in 1..Len(search.result) :
             (/\ i < j
              /\ Recency(search.result[i].path) > 0
              /\ Recency(search.result[j].path) > 0)
             => Recency(search.result[i].path) >= Recency(search.result[j].path)

\* the run of o stored a text file whose content, and not whose name,
\* contains the pattern q, and the stored copy is still what was ingested
StoredTextWith(o, q) ==
    /\ o.status = "copied"
    /\ o.category = "text"
    /\ StoredBytes(store, o.stored_path) = o.src0.bytes
    /\ Contains(Lower(BlobText(o.src0.bytes)), Lower(q))
    /\ ~Contains(Lower(Basename(o.path)), Lower(q))

JsonRowWith(r, q) ==
    /\ r.json_search_text # Null
    /\ q # <<>>
    /\ Contains(r.json_search_text, q)

\* C14 as stated: a search for a substring of the flattened values of an
\* ingested JSON document returns that document's row, from the index
\* tier, whatever has been ingested since.
C14_JsonTextMatch ==
    search.called =>
       \A i \in 1..Len(rows) :
          JsonRowWith(rows[i], search.query) =>
             \E k \in 1..Len(search.result) : search.result[k] = RowDescriptor(rows[i])

\* the rows ingested after rows[i] that the pattern q matches
NewerMatches(i, q) == {j \in (i + 1)..Len(rows) : RowMatches(rows[j], q)}

\* C14: a search for a substring of the flattened values of an ingested
\* JSON document returns that document's row, from the index tier, as long
\* as fewer rows than the limit of db_search are newer and match too.
C14_JsonTextMatchWithinCap ==
    (search.called /\ ~IsTypeQuery(search.query)) =>
       \A i \in 1..Len(rows) :
          (JsonRowWith(rows[i], search.query)
             /\ Cardinality(NewerMatches(i, search.query)) < SearchLimit)
          => \E k \in 1..Len(search.result) : search.result[k] = RowDescriptor(rows[i])

\* C14 witness: a JSON document ingested in this session, another file
\* ingested after it, and the document found by a word of its values that
\* no path contains.
C14_Witness ==
    /\ search.called
    /\ search.query = Q_an
    /\ \E o \in Outcomes :
          /\ o.status = "copied"
          /\ o.path = P_dj
          /\ \E i \in 1..Len(rows) :
                /\ rows[i].id = o.id
                /\ i < Len(rows)
                /\ JsonRowWith(rows[i], search.query)
                /\ ~Like(rows[i].stored_path, search.query)
                /\ ~Like(rows[i].original_path, search.query)
                /\ \E k \in 1..Len(search.result) : search.result[k] = RowDescriptor(rows[i])

\* the scalar leaves of a JSON value, in document order
RECURSIVE Leaves(_)
Leaves(v) ==
    IF v.t \in {"obj", "arr"}
    THEN LET Sub(i) == IF v.t = "obj" THEN v.items[i][2] ELSE v.items[i]
             F[i \in 0..Len(v.items)] == IF i = 0 THEN <<>> ELSE F[i - 1] \o Leaves(Sub(i))
         IN F[Len(v.items)]
    ELSE <<v>>

\* the top-level members whose value is a string, a number or a boolean
ScalarMembers(doc) == SelectSeq(doc.items, LAMBDA m : m[2].t \in {"str", "num", "bool"})

\* C15: for a JSON object, json_keys is the top-level keys in order joined
\* by commas, json_preview the serialization of the first five scalar
\* top-level members at most (empty when there is none), json_search_text
\* the scalar leaves, lowercased and joined by single spaces.
C15_ExtractMetadata ==
    (pure.fn = "extract_metadata" /\ pure.done /\ pure.doc.t = "obj") =>
       LET doc == pure.doc
           leaves == Leaves(doc)
           first5 == Take(ScalarMembers(doc), PreviewMax)
       IN /\ pure.meta.json_keys = Join([i \in 1..Len(doc.items) |-> doc.items[i][1]], <<",">>)
          /\ pure.meta.json_preview = IF first5 = <<>> THEN <<>> ELSE DumpsPreview(first5)
          /\ pure.meta.json_search_text =
                Lower(Join([i \in 1..Len(leaves) |-> PyStr(leaves[i])], <<" ">>))

\* C16: provisioning a store that this process has provisioned before
\* changes neither the folders, nor the index file, nor the schema, nor
\* the rows, nor the stored files; and setup_user_storage finds nothing to
\* create on a store that has been set up.
C16_ProvisionIdempotent ==
    /\ [](ui # "none" =>
            /\ dbExists
            /\ dirs = CategoryNames
            /\ SetupColumns(columns) = columns)
    /\ [][(conn /\ ui = "search" /\ ui' \in MainWindows) =>
             /\ dirs' = dirs
             /\ dbExists' = dbExists
             /\ columns' = columns
             /\ rows' = rows
             /\ store' = store]_vars

\* C16 witness: main.main has run a second time on a store that holds a
\* row from before the session and a row ingested in it.
C16_Witness ==
    /\ ui = "main_again"
    /\ Len(rows) >= 2
    /\ \E o \in Outcomes : o.status = "copied"

\* C17: once any entry point has provisioned the store, the table has the
\* three JSON columns, and a row from before them is as it was, its JSON
\* columns empty.
C17_LegacyMigrated ==
    ui # "none" =>
       /\ JsonColumns \subseteq columns
       /\ \A i \in 1..Len(rows) :
             rows[i].id = LegacyRow.id /\ rows[i].stored_path = LegacyPath
             => rows[i] = LegacyRow

\* the category the MIME rules give, "" when none of them matches
MimeRule(mime) ==
    IF mime = <<>> THEN ""
    ELSE IF mime[1] \in {"image", "video", "audio", "text"} THEN mime[1]
    ELSE IF mime = <<"application", "json">> THEN "json"
    ELSE IF mime = <<"application", "pdf">> THEN "pdf"
    ELSE ""

\* the category the extension gives
ExtensionRule(path) ==
    IF Lower(Suffix(path)) = <<".">> \o S_json THEN "json"
    ELSE IF Lower(Suffix(path)) \in TextExtensions THEN "text"
    ELSE "other"

\* C18: mime_to_category gives one of the seven categories; the category
\* of the MIME rule whenever one matches, whatever the extension; and the
\* category of the extension, or other, only when none matches.
C18_Classify ==
    (pure.fn = "mime_to_category" /\ pure.done) =>
       /\ pure.category \in CategoryNames
       /\ MimeRule(pure.mime) # "" => pure.category = MimeRule(pure.mime)
       /\ MimeRule(pure.mime) = "" => pure.category = ExtensionRule(pure.path)

\* C18 witness: a MIME rule has won over an extension that names another
\* category.
C18_Witness ==
    /\ pure.fn = "mime_to_category"
    /\ pure.done
    /\ pure.mime = <<"image", "png">>
    /\ pure.path = P_dj
    /\ pure.category = "image"

\* name is a millisecond count, an underscore and the sanitized name of orig
IsStoredName(name, orig) ==
    \E n \in 0..MaxClock : name = Decimal(n) \o <<"_">> \o sanitize_filename(Basename(orig))

\* C19: every row's category is one of the seven, and its stored_path is
\* a file <digits>_<sanitized name> directly in that category's folder, so
\* that the folder name, which the filesystem tier reads, is the category.
C19_Layout ==
    \A i \in 1..Len(rows) :
       /\ rows[i].category \in CategoryNames
       /\ Dirname(rows[i].stored_path) = CategoryDir(rows[i].category)
       /\ IsStoredName(Basename(rows[i].stored_path), rows[i].original_path)
       /\ Lower(Basename(Dirname(rows[i].stored_path))) = CatChars(rows[i].category)

\* C19 witness: the index holds a row of a text file and a row of a JSON
\* file, both ingested in this session, one of a name that sanitisation
\* changed.
C19_Witness ==
    /\ \E i \in 1..Len(rows) : rows[i].category = "json" /\ rows[i].added_at > 0
    /\ \E i \in 1..Len(rows) : rows[i].category = "text" /\ rows[i].original_path = P_bx

\* C20: at no time are two runs of the ingestion in progress.
C20_SingleWriter == Cardinality({t \in Threads : Running(t)}) <= 1

\* C21: a call of retrieve_data, whichever tier answers and also while a
\* run of the pipeline is under way, leaves the rows of the index, the
\* stored files and the folders as they were.
C21_SearchReadOnly ==
    [][search'.called => (rows' = rows /\ store' = store /\ dirs' = dirs)]_vars

\* a search has returned while a run has copied its file and not yet
\* written its row
C21_Witness ==
    /\ search.called
    /\ \E t \in Threads : batch[t].pc = "insert"

\* the runs that returned "copied", each named by its thread and its place
\* in the batch
CopiedRuns ==
    {x \in Threads \X (1..MaxFiles) :
        /\ x[2] <= Len(batch[x[1]].outcomes)
        /\ batch[x[1]].outcomes[x[2]].status = "copied"}

RunOutcome(x) == batch[x[1]].outcomes[x[2]]

\* C22: two runs that returned "copied" for the same bytes have each
\* inserted a row: the two returned ids differ, and each is the id of a row
\* holding the common sha256.
C22_NoDeduplication ==
    \A x, y \in CopiedRuns :
       (x # y /\ RunOutcome(x).sha256 = RunOutcome(y).sha256) =>
          /\ RunOutcome(x).id # RunOutcome(y).id
          /\ \A o \in {RunOutcome(x), RunOutcome(y)} :
                Cardinality({i \in 1..Len(rows) :
                                rows[i].id = o.id /\ rows[i].sha256 = o.sha256}) = 1

\* two runs have returned "copied" for the same bytes
C22_Witness ==
    \E x, y \in CopiedRuns : x # y /\ RunOutcome(x).sha256 = RunOutcome(y).sha256

\* the rows of category c, the most recent first
RowsOfCategory(c) ==
    Reverse(SelectSeq(rows, LAMBDA r : Lower(CatChars(r.category)) = c))

\* C23: with a usable index holding at least one row of category c, a search
\* for type:c returns the rows of category c, the most recent first and at
\* most SearchLimit of them, whatever rows of other categories there are.
C23_CategoryListing ==
    (/\ search.called
     /\ IsTypeQuery(search.query)
     /\ TypeRemainder(search.query) # <<>>
     /\ ~IndexUnavailable
     /\ RowsOfCategory(TypeRemainder(search.query)) # <<>>)
    => LET listed == Take(RowsOfCategory(TypeRemainder(search.query)), SearchLimit)
       IN search.result = [i \in 1..Len(listed) |-> RowDescriptor(listed[i])]

\* the order of the steps of a run, as pairs of positions: a run ends by
\* going on to the next path ("validate"), or with the batch ("done",
\* "crashed")
RunEnds == {"validate", "done", "crashed"}

StepOrder ==
    ({"idle"} \X {"validate"})
    \cup ({"validate"} \X ({"is_json", "fingerprint"} \cup RunEnds))
    \cup ({"is_json"} \X {"load_json", "fingerprint"})
    \cup ({"load_json"} \X {"fingerprint"})
    \cup ({"fingerprint"} \X {"copy", "crashed"})
    \cup ({"copy"} \X ({"insert"} \cup RunEnds))
    \cup ({"insert"} \X RunEnds)

\* the step at which a run that did not return "copied" stopped
FailedAt(reason) ==
    CASE reason = "not_found" -> "validate"
      [] reason = "fingerprint" -> "fingerprint"
      [] reason = "copy" -> "copy"
      [] reason = "insert" -> "insert"
      [] OTHER -> "none"

\* C24: the steps of a run follow one another in the order Validate and
\* Classify, ExtractMetadata (for category json only), Fingerprint, Copy,
\* PersistRecord; a row is written only by a run whose copy is made, a file
\* is stored only by a run whose sha256 is computed, and a run that fails at
\* a step ends there, writing no row.
C24_StepOrder ==
    [][/\ \A t \in Threads :
             batch'[t] # batch[t] =>
                /\ <<batch[t].pc, batch'[t].pc>> \in StepOrder
                /\ batch'[t].pc \in {"is_json", "load_json"} => batch'[t].category = "json"
                /\ (batch[t].pc = "validate" /\ batch'[t].pc = "fingerprint")
                      => batch'[t].category # "json"
                /\ Len(batch'[t].outcomes) > Len(batch[t].outcomes) =>
                      LET o == Last(batch'[t].outcomes)
                      IN /\ batch'[t].pc \in RunEnds
                         /\ o.status = "copied" => batch[t].pc = "insert"
                         /\ o.status # "copied" =>
                               /\ FailedAt(o.reason) = batch[t].pc
                               /\ rows' = rows
                               /\ batch[t].pc # "copy" => store' = store
       /\ rows' # rows =>
             \E t \in Threads : /\ batch'[t] # batch[t]
                                /\ batch[t].pc = "insert"
                                /\ batch[t].dest \in DOMAIN store
       /\ store' # store =>
             \E t \in Threads : /\ batch'[t] # batch[t]
                                /\ batch[t].pc = "copy"
                                /\ batch[t].sha # <<>>]_vars

\* a batch in which one run failed and another, of a JSON file with
\* metadata, went through every step
C24_Witness ==
    \E t \in Threads :
       \E k, l \in 1..Len(batch[t].outcomes) :
          /\ batch[t].outcomes[k].status = "error"
          /\ batch[t].outcomes[l].status = "copied"
          /\ batch[t].outcomes[l].json_meta # NoMeta

\* the rows written since the program started (the rows it found have
\* added_at 0)
RowsOfSession == {i \in 1..Len(rows) : rows[i].added_at >= 1}

\* the stored files that no row names and no run is about to record
Orphans ==
    {p \in DOMAIN store :
        /\ \A i \in 1..Len(rows) : rows[i].stored_path # p
        /\ \A t \in Threads : ~(batch[t].pc = "insert" /\ batch[t].dest = p)}

\* every run that returned "copied" has one row, its id the returned one,
\* and there are no other new rows
C25_OneRowPerCopied ==
    /\ \A x \in CopiedRuns :
          Cardinality({i \in RowsOfSession :
                          /\ rows[i].id = RunOutcome(x).id
                          /\ rows[i].stored_path = RunOutcome(x).stored_path
                          /\ rows[i].original_path = RunOutcome(x).path}) = 1
    /\ Cardinality(RowsOfSession) = Cardinality(CopiedRuns)

\* a stored file without a row is the file of a run whose INSERT raised
C25_OrphanOnlyByInsert ==
    \A p \in Orphans :
       \E o \in Outcomes :
          o.stored_path = p /\ o.status = "exception" /\ o.reason = "insert"

\* C25: a run that returned "copied" has inserted exactly one row, with the
\* returned id; a run that ended in an error has inserted none; and a
\* stored file has no row only when the write of its row failed after the
\* copy was made.
C25_ExactlyOneRecord == C25_OneRowPerCopied /\ C25_OrphanOnlyByInsert

\* C26: the content test of the filesystem tier holds of a file exactly
\* when its extension is one of the text and JSON extensions and the text
\* extract_text_from_any_file gives for it contains the lowercased pattern;
\* and for a .json file it holds exactly when the index tier's LIKE on the
\* json_search_text written at ingestion does.
C26_FsTierUsesExtractor ==
    (pure.fn = "matches_text" /\ pure.done) =>
       /\ pure.matched <=>
             /\ \E e \in ContentExtensions : EndsWith(Lower(Basename(pure.path)), e)
             /\ Contains(pure.text, Lower(pure.pattern))
       /\ Lower(Suffix(pure.path)) = <<".">> \o S_json =>
             (pure.matched <=>
                Like(MetaOf(load_json(TRUE, pure.bytes)).json_search_text, pure.pattern))

\* the row names a file that is stored, in a category folder that exists
RowHasFile(r) ==
    /\ r.stored_path \in DOMAIN store
    /\ \E c \in dirs : Dirname(r.stored_path) = CategoryDir(c)

\* C27: every row of the index names a stored file in a category folder
\* that exists, in every state, those a search sees during a run included;
\* and the file was completely copied before its row was written: a row is
\* written only by a run that has ended its copy, for the destination of
\* that copy, and the step that ends a copy leaves all the source's bytes
\* there.
C27_RecordHasFile ==
    /\ [](\A i \in 1..Len(rows) : RowHasFile(rows[i]))
    /\ [][/\ \A t \in Threads :
               (batch[t].pc = "copy" /\ batch'[t].pc = "insert")
                  => StoredBytes(store', batch[t].dest) = src[CurPath(t)].bytes
          /\ Len(rows') > Len(rows) =>
                \E t \in Threads : /\ batch[t].pc = "insert"
                                   /\ batch'[t] # batch[t]
                                   /\ batch[t].dest \in DOMAIN store
                                   /\ Last(rows').stored_path = batch[t].dest]_vars

\* a search has returned while one file of a batch has its row and the
\* next is being copied or recorded
C27_Witness ==
    /\ search.called
    /\ \E i \in 1..Len(rows) : rows[i].added_at >= 1
    /\ \E t \in Threads : batch[t].pc \in {"copy", "insert"}

\* C28: a batch that was started ends, with an outcome for each of its
\* paths and the progress label reading "Done", whatever else happens to
\* the window.
C28_BatchFinishes ==
    (gui.pc = "begin")
       ~> (/\ gui.pc = "done"
           /\ Len(gui.outcomes) = Len(gui.paths)
           /\ \A k \in 1..Len(gui.outcomes) : gui.outcomes[k] \in {"copied", "error"}
           /\ gui.progress = <<"Done">>)

\* C29: when the batch is done and the event loop has run every callback,
\* the tree has one row for each path, in order, and row k shows the path
\* and the outcome of file k: none shows another file's outcome and none
\* still reads "processing".
C29_RowShowsOwnOutcome ==
    (gui.pc = "done" /\ gui.queue = <<>>) =>
       /\ Len(gui.tree) = Len(gui.paths)
       /\ \A k \in 1..Len(gui.tree) :
             gui.tree[k] = [path |-> gui.paths[k], status |-> gui.outcomes[k]]

====
